---------------------------- MODULE Spec2Model ----------------------------
(***************************************************************************)
(* Slayground: class sessions, bookings, public events and registrations,  *)
(* and the recurrence generator of ClassSession.                           *)
(*                                                                         *)
(* Time is an integer clock.  A datetime is a number of clock units and    *)
(* the calendar date of a datetime t is DateOf(t) = t \div DayUnits.       *)
(***************************************************************************)
EXTENDS Integers, Sequences, FiniteSets, TLC

VARIABLES
    now,            \* timezone.now()
    sessions,       \* ClassSession rows
    events,         \* Event rows
    bookings,       \* Booking rows
    registrations,  \* EventRegistration rows
    nextId,         \* next primary key of a reservation row
    req,            \* per web request: position in book_session / slaybrations_register
    response,       \* outcome of the handler that answered last
    proc,           \* per admin process: position in generate_recurrences / generate_repeats
    nextSid,        \* next primary key of a ClassSession row
    prev,           \* history: summary of the generation call that returned last
    calls,          \* history: number of generation calls started
    feed            \* the last answer of calendar_events, with its parameters

\* feed is written by calendar_events only; every other handler leaves it alone
bookVars == <<now, events, bookings, registrations, nextId, req, feed>>
genVars == <<proc, nextSid, prev, calls, feed>>
vars == <<now, sessions, events, bookings, registrations, nextId, req, response,
          proc, nextSid, prev, calls, feed>>

-----------------------------------------------------------------------------
(* Bounds *)
MaxNow == 1
MaxRows == 2

(* Program constants *)
FormMaxQuantity == 20

NoDate == -1
Requests == {"r1", "r2"}
Quantities == {0, 1, 9}
STATUS_CHOICES == {"PENDING", "CONFIRMED", "CANCELLED", "REFUNDED"}
EVENT_TYPE_CHOICES == {"PRIVATE", "PUBLIC"}

Max(a, b) == IF a >= b THEN a ELSE b

RECURSIVE SumQuantity(_)
SumQuantity(rows) ==
    IF rows = {} THEN 0
    ELSE LET r == CHOOSE x \in rows : TRUE
         IN  r.quantity + SumQuantity(rows \ {r})

-----------------------------------------------------------------------------
(* ClassSession.spots_left / can_accept *)
SessionCountedAlt(s) ==
    {b \in bookings : b.session = s.id /\ b.status \in {"PENDING", "CONFIRMED"}}

SessionCounted(s) ==
    {b \in bookings : b.session = s.id /\ b.status = "CONFIRMED"}

spots_left(s) == Max(s.capacity - SumQuantity(SessionCounted(s)), 0)

can_acceptAlt(s, qty) == qty >= 0 /\ spots_left(s) >= qty

can_accept(s, qty) == qty > 0 /\ spots_left(s) >= qty

(* Event.is_public / spots_left / can_accept; spots_left None is NoDate *)
is_public(e) == e.event_type = "PUBLIC"

EventCounted(e) ==
    {g \in registrations : g.event = e.id /\ g.status = "CONFIRMED"}

event_spots_left(e) ==
    IF e.capacity <= 0 \/ ~is_public(e) THEN NoDate
    ELSE Max(e.capacity - SumQuantity(EventCounted(e)), 0)

event_can_acceptAlt(e, qty) ==
    IF ~is_public(e) THEN TRUE
    ELSE qty > 0
         /\ (IF event_spots_left(e) = NoDate THEN 0 ELSE event_spots_left(e)) >= qty

event_can_accept(e, qty) ==
    IF ~is_public(e) \/ e.capacity <= 0 THEN TRUE
    ELSE qty > 0
         /\ (IF event_spots_left(e) = NoDate THEN 0 ELSE event_spots_left(e)) >= qty

-----------------------------------------------------------------------------
(* Form validation *)
QuantityFieldValid(qty) == qty >= 1 /\ qty <= FormMaxQuantity

\* BookingCreateForm.clean: "past" | "capacity" | "ok"
BookingFormCleanAlt(s, qty, t) ==
    IF ~can_accept(s, IF qty = 0 THEN 1 ELSE qty) THEN "capacity"
    ELSE "ok"

BookingFormClean(s, qty, t) ==
    IF s.start_datetime < t THEN "past"
    ELSE IF ~can_accept(s, IF qty = 0 THEN 1 ELSE qty) THEN "capacity"
    ELSE "ok"

\* EventRegistrationForm.clean: "invalid" | "past" | "capacity" | "ok"
EventFormClean(e, qty, t) ==
    IF ~is_public(e) THEN "invalid"
    ELSE IF e.start_datetime # NoDate /\ e.start_datetime < t THEN "past"
    ELSE IF ~event_can_accept(e, IF qty = 0 THEN 1 ELSE qty) THEN "capacity"
    ELSE "ok"

IdleReq == [pc |-> "idle", kind |-> "none", target |-> 0, qty |-> 0]

\* a GET parameter of calendar_events: missing or empty ("absent"), a string
\* datetime.fromisoformat reads as the datetime t ("iso"), or any other string ("bad")
Param(kind, t) == [kind |-> kind, t |-> t]

NoFeed == [start |-> Param("absent", 0), end |-> Param("absent", 0), at |-> 0,
           status |-> 0, rows |-> <<>>]

-----------------------------------------------------------------------------
\* A ClassSession row; the recurrence fields take their field defaults
NewSessionAlt(id, ct, ins, st, en, cap, price, pub, notes) ==
    [id |-> id, class_type |-> ct, instructor |-> ins, location |-> "studio",
     start_datetime |-> st, end_datetime |-> en, capacity |-> cap,
     price_cents |-> price, is_published |-> pub, notes |-> notes,
     recurrence_enabled |-> TRUE, recurrence_every_n_weeks |-> 1,
     recurrence_until |-> NoDate, recurrence_skips |-> <<>>]

NewSession(id, ct, ins, st, en, cap, price, pub, notes) ==
    [id |-> id, class_type |-> ct, instructor |-> ins, location |-> "studio",
     start_datetime |-> st, end_datetime |-> en, capacity |-> cap,
     price_cents |-> price, is_published |-> pub, notes |-> notes,
     recurrence_enabled |-> FALSE, recurrence_every_n_weeks |-> 1,
     recurrence_until |-> NoDate, recurrence_skips |-> <<>>]

InitSessions ==
    {NewSession(1, "A", "ann", 0, 1, c, 0, p, "") : c \in {1, 10}, p \in BOOLEAN}

InitEvents ==
    {[id |-> 1, event_type |-> ty, start_datetime |-> st, capacity |-> c,
      is_published |-> TRUE] :
        ty \in EVENT_TYPE_CHOICES, st \in {NoDate, 0}, c \in {0, 2}}

Init ==
    /\ now = 0
    /\ \/ \E s \in InitSessions : sessions = {s} /\ events = {}
       \/ \E e \in InitEvents : sessions = {} /\ events = {e}
    /\ bookings = {}
    /\ registrations = {}
    /\ nextId = 1
    /\ req = [r \in Requests |-> IdleReq]
    /\ response = "none"
    /\ proc = <<>>
    /\ nextSid = 2
    /\ prev = <<>>
    /\ calls = 0
    /\ feed = NoFeed

Tick ==
    /\ now < MaxNow
    /\ now' = now + 1
    /\ UNCHANGED <<sessions, events, bookings, registrations, nextId, req, response, genVars>>

\* book_session, up to and including form.is_valid()
BookValidate(r, sid, qty) ==
    /\ req[r].pc = "idle"
    /\ LET found == {s \in sessions : s.id = sid /\ s.is_published}
       IN  IF found = {}
           THEN req' = req /\ response' = "404"
           ELSE LET s == CHOOSE x \in found : TRUE
                    res == IF ~QuantityFieldValid(qty) /\ BookingFormClean(s, qty, now) = "ok"
                           THEN "field"
                           ELSE BookingFormClean(s, qty, now)
                IN  IF res = "ok"
                    THEN /\ req' = [req EXCEPT ![r] =
                                [pc |-> "valid", kind |-> "book", target |-> sid, qty |-> qty]]
                         /\ response' = response
                    ELSE /\ req' = req
                         /\ response' = res
    /\ UNCHANGED <<now, sessions, events, bookings, registrations, nextId, genVars>>

\* book_session: the transaction.atomic() block saving the PENDING booking
BookSave(r) ==
    /\ req[r].pc = "valid"
    /\ req[r].kind = "book"
    /\ nextId <= MaxRows
    /\ bookings' = bookings \cup
          {[id |-> nextId, session |-> req[r].target,
            quantity |-> req[r].qty, status |-> "PENDING"]}
    /\ nextId' = nextId + 1
    /\ req' = [req EXCEPT ![r] = IdleReq]
    /\ response' = "admitted"
    /\ UNCHANGED <<now, sessions, events, registrations, genVars>>

\* slaybrations_register, up to and including form.is_valid()
RegValidate(r, eid, qty) ==
    /\ req[r].pc = "idle"
    /\ LET found == {e \in events : e.id = eid /\ e.event_type = "PUBLIC" /\ e.is_published}
       IN  IF found = {}
           THEN req' = req /\ response' = "404"
           ELSE LET e == CHOOSE x \in found : TRUE
                    res == IF ~QuantityFieldValid(qty) /\ EventFormClean(e, qty, now) = "ok"
                           THEN "field"
                           ELSE EventFormClean(e, qty, now)
                IN  IF res = "ok"
                    THEN /\ req' = [req EXCEPT ![r] =
                                [pc |-> "valid", kind |-> "register", target |-> eid, qty |-> qty]]
                         /\ response' = response
                    ELSE /\ req' = req
                         /\ response' = res
    /\ UNCHANGED <<now, sessions, events, bookings, registrations, nextId, genVars>>

\* slaybrations_register: reg.save()
RegSave(r) ==
    /\ req[r].pc = "valid"
    /\ req[r].kind = "register"
    /\ nextId <= MaxRows
    /\ registrations' = registrations \cup
          {[id |-> nextId, event |-> req[r].target,
            quantity |-> req[r].qty, status |-> "PENDING"]}
    /\ nextId' = nextId + 1
    /\ req' = [req EXCEPT ![r] = IdleReq]
    /\ response' = "admitted"
    /\ UNCHANGED <<now, sessions, events, bookings, genVars>>

\* BookingAdmin change form: Booking.clean, then save
BookingModelClean(b, st) ==
    LET s == CHOOSE x \in sessions : x.id = b.session
    IN  ~(st \in {"PENDING", "CONFIRMED"} /\ ~can_accept(s, b.quantity))

AdminSetBookingStatus(b, st) ==
    /\ b \in bookings
    /\ st # b.status
    /\ BookingModelClean(b, st)
    /\ bookings' = (bookings \ {b}) \cup {[b EXCEPT !.status = st]}
    /\ UNCHANGED <<now, sessions, events, registrations, nextId, req, response, genVars>>

\* EventRegistrationAdmin change form: EventRegistration.clean, then save
RegistrationModelClean(g) ==
    LET e == CHOOSE x \in events : x.id = g.event
    IN  event_can_accept(e, g.quantity)

AdminSetRegistrationStatus(g, st) ==
    /\ g \in registrations
    /\ st # g.status
    /\ RegistrationModelClean(g)
    /\ registrations' = (registrations \ {g}) \cup {[g EXCEPT !.status = st]}
    /\ UNCHANGED <<now, sessions, events, bookings, nextId, req, response, genVars>>

Next ==
    \/ Tick
    \/ \E r \in Requests, sid \in {1}, q \in Quantities : BookValidate(r, sid, q)
    \/ \E r \in Requests : BookSave(r)
    \/ \E r \in Requests, eid \in {1}, q \in Quantities : RegValidate(r, eid, q)
    \/ \E r \in Requests : RegSave(r)
    \/ \E b \in bookings, st \in STATUS_CHOICES : AdminSetBookingStatus(b, st)
    \/ \E g \in registrations, st \in STATUS_CHOICES : AdminSetRegistrationStatus(g, st)

Spec == Init /\ [][Next]_vars

-----------------------------------------------------------------------------
(* Recurrence generation                                                   *)
(* A date is a day number; day 7 stands for 2024-01-01.                    *)
DayUnits == 24
WeekUnits == 7 * DayUnits
DefaultWeeks == 12

(* Bounds *)
MaxCalls == 2
MaxIter == 13

DateOf(t) == t \div DayUnits
Weeks(n) == n * WeekUnits

\* _skip_set: the entry is a string strptime reads with "%Y-%m-%d", or a date object
ParsesAlt(entry) == TRUE

Parses(entry) == entry.kind \in {"iso", "date"}

\* ClassSession._skip_set: entries are strings that parse as YYYY-MM-DD ("iso"),
\* strings that do not ("bad"), date objects ("date") or other JSON values ("other")
_skip_setAlt(entries) == {}

_skip_set(entries) ==
    {entries[k].day : k \in {j \in DOMAIN entries : Parses(entries[j])}}

\* generate_recurrences: end_date
ResolveEndDate(seed) ==
    IF seed.recurrence_until # NoDate THEN seed.recurrence_until
    ELSE DateOf(seed.start_datetime) + 7 * DefaultWeeks

\* generate_recurrences: "if not self.recurrence_enabled"
DisabledAlt(seed) == FALSE

Disabled(seed) == ~seed.recurrence_enabled

\* generate_recurrences: "if end_date < self.start_datetime.date()"
EmptyRangeAlt(seed, end_date) == FALSE

EmptyRange(seed, end_date) == end_date < DateOf(seed.start_datetime)

\* generate_recurrences: "if not dry_run" in front of the create call
PersistAlt(dry_run) == TRUE

Persist(dry_run) == ~dry_run

\* generate_recurrences: the loop's exit test
PastEndAlt(cursor, end_date) == DateOf(cursor) >= end_date

PastEnd(cursor, end_date) == DateOf(cursor) > end_date

\* ClassSession.objects.filter(class_type=..., start_datetime=...).exists()
ExistsAlt(ct, start_dt) == FALSE

Exists(ct, start_dt) ==
    \E s \in sessions : s.class_type = ct /\ s.start_datetime = start_dt

\* UniqueConstraint unique_classsession_type_start
UniqueOkAlt(ct, start_dt) == TRUE

UniqueOk(ct, start_dt) ==
    ~\E s \in sessions : s.class_type = ct /\ s.start_datetime = start_dt

\* end_dt = start_dt + duration
EndOfAlt(start_dt, duration) == start_dt

EndOf(start_dt, duration) == start_dt + duration

\* ClassSession.objects.create(...) as called by the generators: the row copied from the seed
OccurrenceAlt(id, seed, start_dt, end_dt) ==
    NewSession(id, seed.class_type, seed.instructor, start_dt, end_dt,
               seed.capacity, seed.price_cents, TRUE, "")

Occurrence(id, seed, start_dt, end_dt) ==
    [NewSession(id, seed.class_type, seed.instructor, start_dt, end_dt,
                seed.capacity, seed.price_cents, seed.is_published, seed.notes)
        EXCEPT !.location = seed.location]

NullRow == NewSession(0, "", "", 0, 0, 0, 0, FALSE, "")

IdleProc ==
    [pc |-> "idle", op |-> "none", seed |-> NullRow, queue |-> <<>>, i |-> 0,
     occurrences |-> 0, interval |-> 0, cursor |-> 0, end_date |-> 0,
     duration |-> 0, skip_set |-> {}, dry_run |-> FALSE,
     created |-> 0, skipped |-> 0, reason |-> "",
     before |-> {}, made |-> {}, dups |-> {}, hits |-> {}, selected |-> {},
     tokens |-> <<>>, total_created |-> 0, total_skipped |-> 0]

NoPrev == [IdleProc EXCEPT !.op = "none"]

\* generate_recurrences: the two early returns and the loop's set-up, as the
\* record of the call; base holds what the caller keeps
EnterCall(base, seed) ==
    LET end_date == ResolveEndDate(seed)
    IN  IF Disabled(seed)
        THEN [base EXCEPT !.pc = "done", !.reason = "disabled"]
        ELSE IF EmptyRange(seed, end_date)
        THEN [base EXCEPT !.pc = "done", !.reason = "empty-range",
                          !.end_date = end_date]
        ELSE [base EXCEPT !.pc = "advance", !.end_date = end_date,
                          !.duration = seed.end_datetime - seed.start_datetime,
                          !.skip_set = _skip_set(seed.recurrence_skips),
                          !.cursor = seed.start_datetime]

\* generate_recurrences: entry
GenStart(p, seed, dry) ==
    /\ proc[p].pc = "idle"
    /\ seed \in sessions
    /\ calls < MaxCalls
    /\ calls' = calls + 1
    /\ LET base == [IdleProc EXCEPT !.op = "gen", !.seed = seed, !.dry_run = dry,
                                    !.before = sessions]
       IN  proc' = [proc EXCEPT ![p] = EnterCall(base, seed)]
    /\ UNCHANGED <<sessions, nextSid, prev, response, bookVars>>

\* generate_recurrences: top of the while loop up to the skip test
GenAdvance(p) ==
    /\ proc[p].pc = "advance"
    /\ proc[p].created + proc[p].skipped < MaxIter
    /\ LET cursor == proc[p].cursor + Weeks(proc[p].seed.recurrence_every_n_weeks)
       IN  IF PastEnd(cursor, proc[p].end_date)
           THEN proc' = [proc EXCEPT ![p].cursor = cursor, ![p].pc = "done",
                                     ![p].reason = "ok"]
           ELSE IF DateOf(cursor) \in proc[p].skip_set
           THEN proc' = [proc EXCEPT ![p].cursor = cursor,
                                     ![p].skipped = @ + 1,
                                     ![p].hits = @ \cup {cursor}]
           ELSE proc' = [proc EXCEPT ![p].cursor = cursor, ![p].pc = "exists"]
    /\ UNCHANGED <<sessions, nextSid, prev, calls, response, bookVars>>

\* generate_recurrences: the existence query
GenExists(p) ==
    /\ proc[p].pc = "exists"
    /\ IF Exists(proc[p].seed.class_type, proc[p].cursor)
       THEN proc' = [proc EXCEPT ![p].skipped = @ + 1, ![p].pc = "advance",
                                 ![p].dups = @ \cup {proc[p].cursor}]
       ELSE proc' = [proc EXCEPT ![p].pc = "create"]
    /\ UNCHANGED <<sessions, nextSid, prev, calls, response, bookVars>>

\* generate_recurrences: create unless dry_run; an IntegrityError leaves the call
GenCreate(p) ==
    /\ proc[p].pc = "create"
    /\ LET start_dt == proc[p].cursor
           end_dt == EndOf(start_dt, proc[p].duration)
       IN  IF ~Persist(proc[p].dry_run)
           THEN /\ proc' = [proc EXCEPT ![p].created = @ + 1, ![p].pc = "advance",
                                        ![p].made = @ \cup {start_dt}]
                /\ UNCHANGED <<sessions, nextSid>>
           ELSE IF UniqueOk(proc[p].seed.class_type, start_dt)
           THEN /\ sessions' = sessions \cup
                        {Occurrence(nextSid, proc[p].seed, start_dt, end_dt)}
                /\ nextSid' = nextSid + 1
                /\ proc' = [proc EXCEPT ![p].created = @ + 1, ![p].pc = "advance",
                                        ![p].made = @ \cup {start_dt}]
           ELSE /\ proc' = [proc EXCEPT ![p].pc = "aborted",
                                        ![p].reason = "IntegrityError"]
                /\ UNCHANGED <<sessions, nextSid>>
    /\ UNCHANGED <<prev, calls, response, bookVars>>

\* generate_recurrences / generate_repeats: the call returns or raises
GenReturn(p) ==
    /\ proc[p].pc \in {"done", "aborted"}
    /\ prev' = proc[p]
    /\ proc' = [proc EXCEPT ![p] = IdleProc]
    /\ response' = IF proc[p].pc = "aborted" THEN "500" ELSE "message"
    /\ UNCHANGED <<sessions, nextSid, calls, bookVars>>

\* generate_repeats: the queryset in Meta.ordering (start_datetime), as a sequence
RECURSIVE OrderByStart(_)
OrderByStart(rows) ==
    IF rows = {} THEN <<>>
    ELSE LET first == CHOOSE x \in rows :
                        \A y \in rows : \/ x.start_datetime < y.start_datetime
                                        \/ (x.start_datetime = y.start_datetime /\ x.id <= y.id)
         IN  <<first>> \o OrderByStart(rows \ {first})

\* generate_repeats: tokens of skip_dates that strptime accepts
RepeatSkipSet(tokens) ==
    {tokens[k].day : k \in {j \in DOMAIN tokens : Parses(tokens[j])}}

\* RepeatSessionsActionForm.is_valid()
RepeatFormValid(occurrences, interval) == occurrences >= 1 /\ interval >= 1

\* generate_repeats: form handling and the set-up of the loops
RepStart(p, selection, occurrences, interval, tokens) ==
    /\ proc[p].pc = "idle"
    /\ selection \subseteq sessions
    /\ calls < MaxCalls
    /\ calls' = calls + 1
    /\ IF ~RepeatFormValid(occurrences, interval)
       THEN /\ response' = "invalid options"
            /\ UNCHANGED proc
       ELSE /\ proc' = [proc EXCEPT ![p] =
                    [IdleProc EXCEPT !.pc = "rep_next", !.op = "rep",
                                     !.queue = OrderByStart(selection), !.i = 1,
                                     !.occurrences = occurrences, !.interval = interval,
                                     !.skip_set = RepeatSkipSet(tokens),
                                     !.before = sessions,
                                     !.selected = selection,
                                     !.tokens = tokens]]
            /\ UNCHANGED response
    /\ UNCHANGED <<sessions, nextSid, prev, bookVars>>

\* generate_repeats: start_dt = seed.start_datetime + timedelta(weeks=interval * i)
CandidateAlt(seed, interval, i) == seed.start_datetime + Weeks(interval * (i - 1))

Candidate(seed, interval, i) == seed.start_datetime + Weeks(interval * i)

\* generate_repeats: next seed / next i, up to the skip test
RepNext(p) ==
    /\ proc[p].pc = "rep_next"
    /\ IF proc[p].queue = <<>>
       THEN proc' = [proc EXCEPT ![p].pc = "done", ![p].reason = "ok"]
       ELSE IF proc[p].i > proc[p].occurrences
       THEN proc' = [proc EXCEPT ![p].queue = Tail(@), ![p].i = 1]
       ELSE LET seed == Head(proc[p].queue)
                start_dt == Candidate(seed, proc[p].interval, proc[p].i)
            IN  IF DateOf(start_dt) \in proc[p].skip_set
                THEN proc' = [proc EXCEPT ![p].skipped = @ + 1, ![p].i = @ + 1,
                                          ![p].hits = @ \cup {start_dt}]
                ELSE proc' = [proc EXCEPT ![p].pc = "rep_exists", ![p].seed = seed,
                                          ![p].duration = seed.end_datetime - seed.start_datetime,
                                          ![p].cursor = start_dt]
    /\ UNCHANGED <<sessions, nextSid, prev, calls, response, bookVars>>

\* generate_repeats: the existence query
RepExists(p) ==
    /\ proc[p].pc = "rep_exists"
    /\ IF Exists(proc[p].seed.class_type, proc[p].cursor)
       THEN proc' = [proc EXCEPT ![p].skipped = @ + 1, ![p].i = @ + 1,
                                 ![p].pc = "rep_next",
                                 ![p].dups = @ \cup {proc[p].cursor}]
       ELSE proc' = [proc EXCEPT ![p].pc = "rep_create"]
    /\ UNCHANGED <<sessions, nextSid, prev, calls, response, bookVars>>

\* generate_repeats: create; an IntegrityError leaves the action
RepCreate(p) ==
    /\ proc[p].pc = "rep_create"
    /\ LET start_dt == proc[p].cursor
           end_dt == EndOf(start_dt, proc[p].duration)
       IN  IF UniqueOk(proc[p].seed.class_type, start_dt)
           THEN /\ sessions' = sessions \cup
                        {Occurrence(nextSid, proc[p].seed, start_dt, end_dt)}
                /\ nextSid' = nextSid + 1
                /\ proc' = [proc EXCEPT ![p].created = @ + 1, ![p].i = @ + 1,
                                        ![p].pc = "rep_next",
                                        ![p].made = @ \cup {start_dt}]
           ELSE /\ proc' = [proc EXCEPT ![p].pc = "aborted",
                                        ![p].reason = "IntegrityError"]
                /\ UNCHANGED <<sessions, nextSid>>
    /\ UNCHANGED <<prev, calls, response, bookVars>>

\* generate_from_recurrence_fields: the action is called on the selected rows
FieldsStart(p, selection) ==
    /\ proc[p].pc = "idle"
    /\ selection \subseteq sessions
    /\ calls < MaxCalls
    /\ calls' = calls + 1
    /\ proc' = [proc EXCEPT ![p] =
            [IdleProc EXCEPT !.pc = "fld_next", !.op = "fields",
                             !.queue = OrderByStart(selection),
                             !.before = sessions, !.selected = selection]]
    /\ UNCHANGED <<sessions, nextSid, prev, response, bookVars>>

\* generate_from_recurrence_fields: "for seed in queryset", the call of
\* seed.generate_recurrences(default_weeks=12, dry_run=False)
FieldsNext(p) ==
    /\ proc[p].pc = "fld_next"
    /\ proc[p].queue # <<>>
    /\ LET seed == Head(proc[p].queue)
           base == [IdleProc EXCEPT !.op = "fields", !.seed = seed,
                                    !.dry_run = FALSE,
                                    !.queue = proc[p].queue,
                                    !.before = proc[p].before,
                                    !.selected = proc[p].selected,
                                    !.total_created = proc[p].total_created,
                                    !.total_skipped = proc[p].total_skipped]
       IN  proc' = [proc EXCEPT ![p] = EnterCall(base, seed)]
    /\ UNCHANGED <<sessions, nextSid, prev, calls, response, bookVars>>

\* generate_from_recurrence_fields: the call returned, its counts are added
FieldsCollect(p) ==
    /\ proc[p].op = "fields"
    /\ proc[p].pc = "done"
    /\ proc' = [proc EXCEPT ![p].pc = "fld_next",
                            ![p].queue = Tail(@),
                            ![p].total_created = @ + proc[p].created,
                            ![p].total_skipped = @ + proc[p].skipped]
    /\ prev' = proc[p]
    /\ UNCHANGED <<sessions, nextSid, calls, response, bookVars>>

\* generate_from_recurrence_fields: message_user after the loop
FieldsReturn(p) ==
    /\ proc[p].pc = "fld_next"
    /\ proc[p].queue = <<>>
    /\ proc' = [proc EXCEPT ![p] = IdleProc]
    /\ response' = "message"
    /\ UNCHANGED <<sessions, nextSid, prev, calls, bookVars>>

\* QuickSessionCreateForm.clean
QuickFormValid(st, en, cap) == en > st /\ cap >= 1

\* quick_create_session
QuickCreate(ct, st, en, cap) ==
    /\ calls < MaxCalls
    /\ calls' = calls + 1
    /\ IF ~QuickFormValid(st, en, cap)
       THEN /\ response' = "field"
            /\ UNCHANGED <<sessions, nextSid>>
       ELSE IF UniqueOk(ct, st)
       THEN /\ sessions' = sessions \cup
                    {NewSession(nextSid, ct, "", st, en, cap, 0, TRUE, "")}
            /\ nextSid' = nextSid + 1
            /\ response' = "created"
       ELSE /\ response' = "500"
            /\ UNCHANGED <<sessions, nextSid>>
    /\ UNCHANGED <<proc, prev, bookVars>>

\* calendar_events: the queryset after the filters.  A ValueError raised by the
\* start parameter leaves the try block before the end parameter is read.
CalendarRows(start_param, end_param, t) ==
    LET published == {s \in sessions : s.is_published}
        byDefault == IF start_param.kind = "absent" /\ end_param.kind = "absent"
                     THEN {s \in published : s.start_datetime >= t}
                     ELSE published
        byStart == IF start_param.kind = "iso"
                   THEN {s \in byDefault : s.start_datetime >= start_param.t}
                   ELSE byDefault
        byEnd == IF start_param.kind # "bad" /\ end_param.kind = "iso"
                 THEN {s \in byStart : s.start_datetime <= end_param.t}
                 ELSE byStart
    IN  byEnd

\* calendar_events
CalendarEvents(start_param, end_param) ==
    /\ feed' = [start |-> start_param, end |-> end_param, at |-> now, status |-> 200,
                rows |-> OrderByStart(CalendarRows(start_param, end_param, now))]
    /\ response' = "json"
    /\ UNCHANGED <<now, sessions, events, bookings, registrations, nextId, req,
                   proc, nextSid, prev, calls>>

-----------------------------------------------------------------------------
(* The calendar feed over a fixed table of sessions *)
FeedRows ==
    { NewSession(1, "A", "ann", 0, 1, 5, 0, TRUE, ""),
      NewSession(2, "A", "ann", 2, 3, 5, 0, TRUE, ""),
      NewSession(3, "B", "ann", 1, 2, 5, 0, FALSE, "") }

FeedParams == {Param("absent", 0), Param("iso", 1), Param("iso", 2), Param("bad", 0)}

InitFeed ==
    /\ now = 0
    /\ sessions \in SUBSET FeedRows
    /\ events = {}
    /\ bookings = {}
    /\ registrations = {}
    /\ nextId = 1
    /\ req = [r \in Requests |-> IdleReq]
    /\ response = "none"
    /\ proc = <<>>
    /\ nextSid = 4
    /\ prev = <<>>
    /\ calls = 0
    /\ feed = NoFeed

NextFeed ==
    \/ Tick
    \/ \E start_param \in FeedParams, end_param \in FeedParams :
          CalendarEvents(start_param, end_param)

SpecFeed == InitFeed /\ [][NextFeed]_vars

-----------------------------------------------------------------------------
(* Stores the generators start from *)
Procs == {"p1", "p2"}

Entry(kind, day) == [kind |-> kind, day |-> day]

SkipLists ==
    { <<>>,
      <<Entry("iso", 14)>>,
      <<Entry("iso", 14), Entry("bad", 21), Entry("other", 28)>>,
      <<Entry("date", 28), Entry("iso", 15)>> }

BaseSeeds ==
    { NewSession(1, "A", "ann", Weeks(1), Weeks(1) + 1, 5, 1000, TRUE, "heels"),
      [NewSession(1, "A", "bob", Weeks(1) + 23, Weeks(1) + 25, 3, 0, FALSE, "")
          EXCEPT !.location = "annex"] }

ProjSeeds ==
    { [b EXCEPT !.recurrence_enabled = en, !.recurrence_every_n_weeks = n,
                !.recurrence_until = u, !.recurrence_skips = sk] :
        b \in BaseSeeds, en \in BOOLEAN, n \in {0, 1, 2},
        u \in {NoDate, 3, 27, 28}, sk \in SkipLists }

PreRows ==
    { NewSession(2, "A", "cat", Weeks(3), Weeks(3) + 2, 8, 500, TRUE, "other"),
      NewSession(3, "B", "ann", Weeks(2), Weeks(2) + 1, 8, 500, TRUE, "other") }

\* rows an administrator runs the generator on: the seed and the first row made from it
Targets(rows) == {s \in rows : s.id \in {1, 4}}

InitProj ==
    /\ now = 0
    /\ \E seed \in ProjSeeds, pre \in SUBSET PreRows : sessions = {seed} \cup pre
    /\ events = {}
    /\ bookings = {}
    /\ registrations = {}
    /\ nextId = 1
    /\ req = [r \in Requests |-> IdleReq]
    /\ response = "none"
    /\ proc = [p \in Procs |-> IdleProc]
    /\ nextSid = 4
    /\ prev = NoPrev
    /\ calls = 0
    /\ feed = NoFeed

\* one administrator at a time: calls of generate_recurrences follow one another
NextProj ==
    \/ \E seed \in Targets(sessions), dry \in BOOLEAN : GenStart("p1", seed, dry)
    \/ GenAdvance("p1")
    \/ GenExists("p1")
    \/ GenCreate("p1")
    \/ GenReturn("p1")

SpecProj == InitProj /\ [][NextProj]_vars

\* administrators and staff working at the same time
GenSeeds ==
    {seed \in ProjSeeds :
        /\ (seed.instructor = "ann") = (seed.recurrence_every_n_weeks = 1)
        /\ seed.recurrence_enabled
        /\ seed.recurrence_every_n_weeks \in {1, 2}
        /\ seed.recurrence_until = 28
        /\ seed.recurrence_skips \in {<<>>, <<Entry("iso", 14)>>}}

Selections(rows) == {{s} : s \in Targets(rows)} \cup {rows}

RepeatInputs ==
    { <<0, 1, <<>>>>, <<1, 0, <<>>>>, <<1, 2, <<>>>>,
      <<2, 1, <<Entry("iso", 14), Entry("bad", 21)>>>> }

QuickInputs ==
    { <<"A", Weeks(3), Weeks(3) + 1, 5>>, <<"B", Weeks(3), Weeks(3) + 3, 5>>,
      <<"A", Weeks(4), Weeks(4), 5>>, <<"A", Weeks(4), Weeks(4) + 1, 0>> }

InitGen ==
    /\ now = 0
    /\ \E seed \in GenSeeds : sessions = {seed}
    /\ events = {}
    /\ bookings = {}
    /\ registrations = {}
    /\ nextId = 1
    /\ req = [r \in Requests |-> IdleReq]
    /\ response = "none"
    /\ proc = [p \in Procs |-> IdleProc]
    /\ nextSid = 4
    /\ prev = NoPrev
    /\ calls = 0
    /\ feed = NoFeed

NextGen ==
    \/ \E p \in Procs, seed \in Targets(sessions), dry \in BOOLEAN : GenStart(p, seed, dry)
    \/ \E p \in Procs : GenAdvance(p)
    \/ \E p \in Procs : GenExists(p)
    \/ \E p \in Procs : GenCreate(p)
    \/ \E p \in Procs : GenReturn(p)
    \/ \E p \in Procs, sel \in Selections(sessions), inp \in RepeatInputs :
          RepStart(p, sel, inp[1], inp[2], inp[3])
    \/ \E p \in Procs : RepNext(p)
    \/ \E p \in Procs : RepExists(p)
    \/ \E p \in Procs : RepCreate(p)
    \/ \E inp \in QuickInputs : QuickCreate(inp[1], inp[2], inp[3], inp[4])

SpecGen == InitGen /\ [][NextGen]_vars

\* one administrator at a time: runs of generate_repeats follow one another
BatchRows ==
    { NewSession(1, "A", "ann", Weeks(1), Weeks(1) + 1, 5, 1000, TRUE, "heels"),
      [NewSession(2, "A", "bob", Weeks(2), Weeks(2) + 2, 3, 0, FALSE, "")
          EXCEPT !.location = "annex"],
      NewSession(3, "B", "ann", Weeks(1), Weeks(1) + 3, 8, 500, TRUE, "other") }

InitBatch ==
    /\ now = 0
    /\ \E rows \in SUBSET BatchRows : rows # {} /\ sessions = rows
    /\ events = {}
    /\ bookings = {}
    /\ registrations = {}
    /\ nextId = 1
    /\ req = [r \in Requests |-> IdleReq]
    /\ response = "none"
    /\ proc = [p \in Procs |-> IdleProc]
    /\ nextSid = 4
    /\ prev = NoPrev
    /\ calls = 0
    /\ feed = NoFeed

NextBatch ==
    \/ \E sel \in Selections(sessions) \ {{}}, inp \in RepeatInputs :
          RepStart("p1", sel, inp[1], inp[2], inp[3])
    \/ RepNext("p1")
    \/ RepExists("p1")
    \/ RepCreate("p1")
    \/ GenReturn("p1")

SpecBatch == InitBatch /\ [][NextBatch]_vars

\* two administrators calling generate_recurrences at the same time
RaceSeeds ==
    {seed \in ProjSeeds :
        /\ seed.recurrence_enabled
        /\ seed.recurrence_every_n_weeks \in {1, 2}
        /\ seed.recurrence_until = 28}

InitRace ==
    /\ now = 0
    /\ \E seed \in RaceSeeds, pre \in SUBSET PreRows : sessions = {seed} \cup pre
    /\ events = {}
    /\ bookings = {}
    /\ registrations = {}
    /\ nextId = 1
    /\ req = [r \in Requests |-> IdleReq]
    /\ response = "none"
    /\ proc = [p \in Procs |-> IdleProc]
    /\ nextSid = 4
    /\ prev = NoPrev
    /\ calls = 0
    /\ feed = NoFeed

NextRace ==
    \/ \E p \in Procs, seed \in Targets(sessions), dry \in BOOLEAN : GenStart(p, seed, dry)
    \/ \E p \in Procs : GenAdvance(p)
    \/ \E p \in Procs : GenExists(p)
    \/ \E p \in Procs : GenCreate(p)
    \/ \E p \in Procs : GenReturn(p)

SpecRace == InitRace /\ [][NextRace]_vars

\* one administrator at a time, using both admin actions on rows made earlier
InitFields ==
    /\ now = 0
    /\ \E seed \in RaceSeeds, pre \in SUBSET PreRows : sessions = {seed} \cup pre
    /\ events = {}
    /\ bookings = {}
    /\ registrations = {}
    /\ nextId = 1
    /\ req = [r \in Requests |-> IdleReq]
    /\ response = "none"
    /\ proc = [p \in Procs |-> IdleProc]
    /\ nextSid = 4
    /\ prev = NoPrev
    /\ calls = 0
    /\ feed = NoFeed

NextFields ==
    \/ \E sel \in Selections(sessions) : FieldsStart("p1", sel)
    \/ FieldsNext("p1")
    \/ GenAdvance("p1")
    \/ GenExists("p1")
    \/ GenCreate("p1")
    \/ FieldsCollect("p1")
    \/ FieldsReturn("p1")
    \/ \E sel \in Selections(sessions), inp \in RepeatInputs :
          RepStart("p1", sel, inp[1], inp[2], inp[3])
    \/ RepNext("p1")
    \/ RepExists("p1")
    \/ RepCreate("p1")
    \/ proc["p1"].op = "rep" /\ GenReturn("p1")

SpecFields == InitFields /\ [][NextFields]_vars

\* one administrator at a time, on two seeds alike but for the class type and
\* for the skip list: the second seed's list is the first one's without the
\* entries that cannot be read as dates
WithoutMalformed(entries) ==
    SelectSeq(entries, LAMBDA e : e.kind \in {"iso", "date"})

SkipSeed(id, ct, skips) ==
    [NewSession(id, ct, "ann", Weeks(1), Weeks(1) + 1, 5, 1000, TRUE, "heels")
        EXCEPT !.recurrence_enabled = TRUE, !.recurrence_until = 28,
               !.recurrence_skips = skips]

SkipTokens ==
    { <<Entry("iso", 14), Entry("bad", 21)>>, <<Entry("bad", 21)>>,
      <<Entry("bad", 14), Entry("iso", 21), Entry("bad", 28)>> }

SkipInputs ==
    {<<2, 1, tokens>> : tokens \in SkipTokens \cup {WithoutMalformed(t) : t \in SkipTokens}}

InitSkip ==
    /\ now = 0
    /\ \E sk \in SkipLists :
          sessions = {SkipSeed(1, "A", sk), SkipSeed(2, "B", WithoutMalformed(sk))}
    /\ events = {}
    /\ bookings = {}
    /\ registrations = {}
    /\ nextId = 1
    /\ req = [r \in Requests |-> IdleReq]
    /\ response = "none"
    /\ proc = [p \in Procs |-> IdleProc]
    /\ nextSid = 4
    /\ prev = NoPrev
    /\ calls = 0
    /\ feed = NoFeed

NextSkip ==
    \/ \E seed \in {s \in sessions : s.id \in {1, 2}}, dry \in BOOLEAN :
          GenStart("p1", seed, dry)
    \/ GenAdvance("p1")
    \/ GenExists("p1")
    \/ GenCreate("p1")
    \/ \E seed \in {s \in sessions : s.id \in {1, 2}}, inp \in SkipInputs :
          RepStart("p1", {seed}, inp[1], inp[2], inp[3])
    \/ RepNext("p1")
    \/ RepExists("p1")
    \/ RepCreate("p1")
    \/ GenReturn("p1")

SpecSkip == InitSkip /\ [][NextSkip]_vars

TypeOK ==
    /\ now \in 0..MaxNow
    /\ nextId \in 1..(MaxRows + 1)
    /\ \A b \in bookings : b.status \in STATUS_CHOICES /\ b.quantity >= 1
    /\ \A g \in registrations : g.status \in STATUS_CHOICES /\ g.quantity >= 1

-----------------------------------------------------------------------------
(* Reference quantities for the properties, computed row by row over the   *)
(* primary keys instead of by the aggregate used by spots_left.            *)
RowIds == 1..(MaxRows + 1)

RECURSIVE UnitsUpTo(_, _, _, _)
UnitsUpTo(rows, slot, statuses, n) ==
    IF n = 0 THEN 0
    ELSE LET hit == {x \in rows : x.id = n /\ x.slot = slot /\ x.status \in statuses}
         IN  (IF hit = {} THEN 0 ELSE (CHOOSE x \in hit : TRUE).quantity)
             + UnitsUpTo(rows, slot, statuses, n - 1)

BookingRows == {[id |-> b.id, slot |-> b.session, quantity |-> b.quantity,
                 status |-> b.status] : b \in bookings}
RegistrationRows == {[id |-> g.id, slot |-> g.event, quantity |-> g.quantity,
                      status |-> g.status] : g \in registrations}

SessionUnits(s, statuses) == UnitsUpTo(BookingRows, s.id, statuses, MaxRows + 1)
EventUnits(e, statuses) == UnitsUpTo(RegistrationRows, e.id, statuses, MaxRows + 1)

ProbeQuantities == 0..11
BoundedEvents == {e \in events : e.event_type = "PUBLIC" /\ e.capacity > 0}

\* C1: on a class session of capacity 1, two requests for quantity 1 never
\* both hold a reservation: at most one PENDING or CONFIRMED row of
\* quantity 1 exists for it.
C1_NeverBothAdmitted ==
    \A s \in sessions :
        s.capacity = 1 =>
            Cardinality({b \in bookings : /\ b.session = s.id
                                          /\ b.quantity = 1
                                          /\ b.status \in {"PENDING", "CONFIRMED"}}) <= 1

\* C2: the capacity check and the insert of a request are one atomic step:
\* while a request is between its check and its insert, no step changes the
\* reservations of the slot it checked.
C2_CheckInsertAtomic ==
    [][\A r \in Requests :
          (req[r].pc = "valid" /\ req'[r].pc = "valid") =>
              /\ (req[r].kind = "book" =>
                    {b \in bookings' : b.session = req[r].target}
                      = {b \in bookings : b.session = req[r].target})
              /\ (req[r].kind = "register" =>
                    {g \in registrations' : g.event = req[r].target}
                      = {g \in registrations : g.event = req[r].target})]_vars

\* C3: for every class session and every public event with capacity > 0,
\* can_accept(q) holds iff q >= 1 and q <= max(capacity - CONFIRMED units, 0);
\* with capacity 10 and 9 CONFIRMED units, 1 is admitted, 2 is rejected and
\* spots_left is 1.
C3_AdmissionRule ==
    /\ \A s \in sessions : \A q \in ProbeQuantities :
          /\ spots_left(s) = Max(s.capacity - SessionUnits(s, {"CONFIRMED"}), 0)
          /\ can_accept(s, q) <=>
                (q >= 1 /\ Max(s.capacity - SessionUnits(s, {"CONFIRMED"}), 0) >= q)
    /\ \A e \in BoundedEvents : \A q \in ProbeQuantities :
          /\ event_spots_left(e) = Max(e.capacity - EventUnits(e, {"CONFIRMED"}), 0)
          /\ event_can_accept(e, q) <=>
                (q >= 1 /\ Max(e.capacity - EventUnits(e, {"CONFIRMED"}), 0) >= q)
    /\ \A s \in sessions :
          (s.capacity = 10 /\ SessionUnits(s, {"CONFIRMED"}) = 9) =>
              (can_accept(s, 1) /\ ~can_accept(s, 2) /\ spots_left(s) = 1)

C3_Witness ==
    \E s \in sessions :
        /\ s.capacity = 10
        /\ SessionUnits(s, {"CONFIRMED"}) = 9
        /\ can_accept(s, 1)
        /\ ~can_accept(s, 2)
        /\ spots_left(s) = 1

\* C4: on every capacity-bounded slot the total quantity of PENDING and
\* CONFIRMED reservations never exceeds the capacity.
C4_ActiveWithinCapacity ==
    /\ \A s \in sessions : SessionUnits(s, {"PENDING", "CONFIRMED"}) <= s.capacity
    /\ \A e \in BoundedEvents : EventUnits(e, {"PENDING", "CONFIRMED"}) <= e.capacity

\* C5: a request validated after its slot has started is rejected whatever
\* the capacity, and a reservation row is only ever inserted by a request
\* that passed validation: every request that passes validation does so at
\* a clock value not later than the slot's start.
SlotStart(q) ==
    IF q.kind = "book"
    THEN (CHOOSE s \in sessions : s.id = q.target).start_datetime
    ELSE (CHOOSE e \in events : e.id = q.target).start_datetime

C5_NoPastAdmission ==
    [][/\ \A r \in Requests :
            (req[r].pc = "idle" /\ req'[r].pc = "valid") =>
                (SlotStart(req'[r]) = NoDate \/ SlotStart(req'[r]) >= now)
       /\ (bookings' # bookings \/ registrations' # registrations) =>
            \/ \E r \in Requests : req[r].pc = "valid" /\ req'[r].pc = "idle"
            \/ (nextId' = nextId)]_vars

C5_Witness ==
    /\ response = "past"
    /\ \/ \E s \in sessions : s.start_datetime < now /\ spots_left(s) > 0
       \/ \E e \in events : e.start_datetime # NoDate /\ e.start_datetime < now
                            /\ event_can_accept(e, 1)

-----------------------------------------------------------------------------
(* Reference values for the properties of generate_recurrences *)
MaxK == DefaultWeeks + 1

\* the end date of the projection: recurrence_until if set, else 12 weeks after the start date
EndDateRef(seed) ==
    IF seed.recurrence_until = NoDate
    THEN DateOf(seed.start_datetime) + 84
    ELSE seed.recurrence_until

\* the cursor positions in range: start + k * n weeks, k >= 1
Positions(seed) ==
    {t \in {seed.start_datetime + k * seed.recurrence_every_n_weeks * WeekUnits : k \in 1..MaxK} :
        DateOf(t) <= EndDateRef(seed)}

\* the dates of the skip list that can be read as dates
SkipDaysRef(seed) ==
    {d \in 0..100 : \E k \in DOMAIN seed.recurrence_skips :
        /\ seed.recurrence_skips[k].day = d
        /\ seed.recurrence_skips[k].kind \in {"iso", "date"}}

SkipPositions(seed) == {t \in Positions(seed) : DateOf(t) \in SkipDaysRef(seed)}
OpenPositions(seed) == Positions(seed) \ SkipPositions(seed)

StartsOf(rows) == {r.start_datetime : r \in rows}

Run == proc["p1"]

\* the running call repeats the call that returned last, with the same parameters
SecondRun ==
    /\ Run.op = "gen"
    /\ prev.op = "gen"
    /\ prev.pc = "done"
    /\ prev.seed = Run.seed
    /\ prev.dry_run = Run.dry_run

\* C6 as stated: a second run with identical parameters right after a first
\* one creates nothing: it counts nothing as created, adds no row, does not
\* fail, and counts every occurrence of the first run as skipped.
C6_SecondRunCreatesNothing ==
    SecondRun =>
        /\ Run.pc # "aborted"
        /\ Run.created = 0
        /\ sessions = Run.before
        /\ (Run.pc = "done" =>
              /\ prev.made \subseteq Run.dups
              /\ Run.skipped = prev.created + prev.skipped)

\* C6 amended: the same for runs that are not dry runs.
C6_SecondRealRunCreatesNothing ==
    (SecondRun /\ ~Run.dry_run) =>
        /\ Run.pc # "aborted"
        /\ Run.created = 0
        /\ sessions = Run.before
        /\ (Run.pc = "done" =>
              /\ prev.made \subseteq Run.dups
              /\ Run.skipped = prev.created + prev.skipped)

C6_Witness ==
    /\ SecondRun
    /\ ~Run.dry_run
    /\ Run.pc = "done"
    /\ prev.created > 0
    /\ Run.created = 0
    /\ prev.made \subseteq Run.dups
    /\ sessions = Run.before

\* C7: the interval is at least one week whenever the loop runs, so every
\* pass through the top of the loop moves the cursor strictly forward.
C7_CursorAdvances ==
    [][\A p \in Procs :
          (proc[p].pc = "advance" /\ proc'[p] # proc[p]) =>
              /\ proc[p].seed.recurrence_every_n_weeks >= 1
              /\ proc'[p].cursor > proc[p].cursor]_vars

\* C8: no two class sessions share the same class type and start.
C8_UniqueTypeStart ==
    \A a \in sessions : \A b \in sessions :
        (a.class_type = b.class_type /\ a.start_datetime = b.start_datetime) => a = b

\* a write was refused by the constraint while generated rows are in the store
C8_Witness ==
    /\ \E p \in Procs : proc[p].pc = "aborted" /\ proc[p].reason = "IntegrityError"
    /\ \E r \in sessions : r.id >= 4

\* C9: a run that is not a dry run, on a store holding only the seed, creates
\* exactly the rows at start + k * n weeks (k >= 1) whose date is at most the
\* end date and not a skip date; created counts them, created + skipped counts
\* the positions in range, and the seed is not created again.  For the seed of
\* 2024-01-01 (day 7), weekly until 2024-01-22 (day 28), skipping 2024-01-08
\* (day 14): created = 2 (days 21 and 28), skipped = 1.
C9_ExactOccurrences ==
    (/\ Run.op = "gen" /\ Run.pc = "done" /\ Run.reason \in {"ok", "empty-range"}
     /\ ~Run.dry_run /\ Run.before = {Run.seed}) =>
        LET new == sessions \ Run.before
        IN  /\ StartsOf(new) = OpenPositions(Run.seed)
            /\ Cardinality(new) = Cardinality(OpenPositions(Run.seed))
            /\ Run.created = Cardinality(OpenPositions(Run.seed))
            /\ Run.created + Run.skipped = Cardinality(Positions(Run.seed))
            /\ Run.seed \in sessions
            /\ Run.seed.start_datetime \notin StartsOf(new)
            /\ (/\ Run.seed.start_datetime = Weeks(1)
                /\ Run.seed.recurrence_every_n_weeks = 1
                /\ Run.seed.recurrence_until = 28
                /\ SkipDaysRef(Run.seed) = {14}) =>
                    /\ Run.created = 2
                    /\ Run.skipped = 1
                    /\ StartsOf(new) = {Weeks(3), Weeks(4)}

C9_Witness ==
    /\ Run.op = "gen" /\ Run.pc = "done" /\ Run.reason = "ok"
    /\ ~Run.dry_run /\ Run.before = {Run.seed}
    /\ Run.seed.start_datetime = Weeks(1)
    /\ Run.seed.recurrence_every_n_weeks = 1
    /\ Run.seed.recurrence_until = 28
    /\ SkipDaysRef(Run.seed) = {14}
    /\ Run.created = 2
    /\ Run.skipped = 1
    /\ StartsOf(sessions \ Run.before) = {Weeks(3), Weeks(4)}

\* C10: whenever the cursor lands on a skip date within range, the run
\* creates nothing there, adds exactly one to skipped and stays in the loop;
\* no row made by a run is on a skip date; and at the end of a run every
\* position in range has been handled: the skip dates as skipped, the others
\* as created or as existing.
C10_SkipDates ==
    [][LET R == proc["p1"]
           R2 == proc'["p1"]
       IN  /\ (/\ R.op = "gen" /\ R.pc = "advance" /\ R2 # R
               /\ DateOf(R2.cursor) <= EndDateRef(R.seed)
               /\ DateOf(R2.cursor) \in SkipDaysRef(R.seed)) =>
                  /\ R2.skipped = R.skipped + 1
                  /\ R2.created = R.created
                  /\ sessions' = sessions
                  /\ R2.pc = "advance"
           /\ R2.op = "gen" =>
                  /\ \A r \in sessions' \ R2.before :
                        DateOf(r.start_datetime) \notin SkipDaysRef(R2.seed)
                  /\ \A t \in R2.made : DateOf(t) \notin SkipDaysRef(R2.seed)
           /\ (R2.op = "gen" /\ R2.pc = "done" /\ R2.reason = "ok") =>
                  /\ R2.hits = SkipPositions(R2.seed)
                  /\ R2.made \cup R2.dups = OpenPositions(R2.seed)]_vars

\* a skip date was met and a later position was still created
C10_Witness ==
    /\ Run.op = "gen" /\ Run.pc = "done" /\ Run.reason = "ok" /\ ~Run.dry_run
    /\ \E h \in Run.hits : \E r \in sessions \ Run.before : r.start_datetime > h

-----------------------------------------------------------------------------
(* Properties of the rows the generators write *)

\* process p takes the step that ends a pass at the create call
CreateStep(p) ==
    /\ proc[p].pc \in {"create", "rep_create"}
    /\ proc'[p] # proc[p]

Span(s) == s.end_datetime - s.start_datetime

\* C11: every row written by generate_recurrences or by generate_repeats
\* has end_datetime - start_datetime equal to that of the seed it is made from.
C11_DurationPreserved ==
    [][\A p \in Procs :
          CreateStep(p) =>
              \A s \in sessions' \ sessions : Span(s) = Span(proc[p].seed)]_vars

\* a batch run has written a row from a seed that lasts three units
C11_Witness ==
    \E p \in Procs :
        /\ proc[p].op = "rep"
        /\ proc[p].cursor \in proc[p].made
        /\ Span(proc[p].seed) = 3
        /\ \E s \in sessions :
              /\ s.class_type = proc[p].seed.class_type
              /\ s.start_datetime = proc[p].cursor
              /\ Span(s) = 3

\* C12: generate_recurrences on a seed with recurrence_enabled = False returns
\* created = 0 (and skipped = 0) with reason "disabled" as a normal result and
\* leaves the table of sessions as it was, whatever the seed's interval,
\* end date and skip list.
C12_DisabledWritesNothing ==
    /\ (Run.op = "gen" /\ ~Run.seed.recurrence_enabled) =>
          /\ Run.pc = "done"
          /\ Run.reason = "disabled"
          /\ Run.created = 0 /\ Run.skipped = 0
          /\ sessions = Run.before
    /\ (prev.op = "gen" /\ ~prev.seed.recurrence_enabled) =>
          /\ prev.pc = "done"
          /\ prev.reason = "disabled"
          /\ prev.created = 0 /\ prev.skipped = 0
          /\ (Run.pc = "idle" => sessions = prev.before /\ response = "message")

\* a call on a disabled seed with interval 0, an end date in the past and a
\* skip list has returned
C12_Witness ==
    /\ Run.pc = "idle"
    /\ prev.op = "gen"
    /\ ~prev.seed.recurrence_enabled
    /\ prev.seed.recurrence_every_n_weeks = 0
    /\ prev.seed.recurrence_until = 3
    /\ Len(prev.seed.recurrence_skips) = 3
    /\ prev.reason = "disabled"
    /\ sessions = prev.before

\* the running call is a real run of the seed whose dry run returned last
RealAfterDry ==
    /\ Run.op = "gen" /\ ~Run.dry_run
    /\ prev.op = "gen" /\ prev.dry_run /\ prev.pc = "done"
    /\ prev.seed = Run.seed

\* C13: a call with dry_run = True never changes the table of sessions, and
\* the counts it returns are those of the call with dry_run = False made on
\* the same seed from the same table.
C13_DryRun ==
    /\ (Run.op = "gen" /\ Run.dry_run) => sessions = Run.before
    /\ (Run.pc = "idle" /\ prev.op = "gen" /\ prev.dry_run) => sessions = prev.before
    /\ RealAfterDry => Run.before = prev.before
    /\ (RealAfterDry /\ Run.pc = "done") =>
          /\ Run.reason = prev.reason
          /\ Run.created = prev.created
          /\ Run.skipped = prev.skipped
          /\ Run.made = prev.made
          /\ StartsOf(sessions \ Run.before) = prev.made

\* a dry run reported one created and two skipped (a skip date and an
\* existing row), and the real run that followed has returned the same
C13_Witness ==
    /\ RealAfterDry /\ Run.pc = "done"
    /\ prev.created = 1 /\ prev.skipped = 2
    /\ prev.hits # {} /\ prev.dups # {}
    /\ Run.created = 1 /\ Run.skipped = 2
    /\ Cardinality(sessions \ Run.before) = 1

\* the call's seed is enabled and its end date lies before its start date
EmptyCall(c) ==
    /\ c.op = "gen"
    /\ c.seed.recurrence_enabled
    /\ EndDateRef(c.seed) < c.seed.start_datetime \div 24

\* C14: when the seed is enabled and the end date (recurrence_until, or the
\* start date plus 12 weeks) is before the seed's start date,
\* generate_recurrences returns reason "empty-range" with created = 0 and
\* skipped = 0, writes nothing, and returns normally.
C14_EmptyRange ==
    /\ EmptyCall(Run) =>
          /\ Run.pc = "done"
          /\ Run.reason = "empty-range"
          /\ Run.created = 0 /\ Run.skipped = 0
          /\ sessions = Run.before
    /\ EmptyCall(prev) =>
          /\ prev.pc = "done"
          /\ prev.reason = "empty-range"
          /\ prev.created = 0 /\ prev.skipped = 0
          /\ (Run.pc = "idle" => sessions = prev.before /\ response = "message")

\* a call with recurrence_until four days before the seed's start has returned
C14_Witness ==
    /\ Run.pc = "idle"
    /\ EmptyCall(prev)
    /\ prev.seed.recurrence_until = 3
    /\ prev.seed.start_datetime \div 24 = 7
    /\ prev.reason = "empty-range"
    /\ response = "message"
    /\ sessions = prev.before

\* the candidate a batch run is about to take: the i-th repeat of the first seed left
BatchSeed(R) == Head(R.queue)
BatchStart(R) == BatchSeed(R).start_datetime + R.i * R.interval * 7 * 24

\* a row of the seed's class type stands at the start t
Taken(seed, t) ==
    \E r \in sessions : r.class_type = seed.class_type /\ r.start_datetime = t

\* C18: generate_repeats takes, for each selected seed and each i in
\* 1..occurrences, the start seed.start + i * interval weeks exactly once:
\* it counts it as skipped when its date is in the skip set of the form or a
\* session of the seed's class type already stands at that start, and
\* otherwise creates a row there with the seed's duration; when the run
\* returns, created + skipped = occurrences * (number of selected seeds).
C18_BatchRepeat ==
    [][LET R == proc["p1"]
           R2 == proc'["p1"]
           handled == R.occurrences * (Cardinality(R.selected) - Len(R.queue)) + (R.i - 1)
       IN  /\ (R.op = "rep" /\ R.pc # "done" /\ R.queue # <<>>) =>
                  /\ R.created + R.skipped = handled
                  /\ Cardinality(sessions \ R.before) = R.created
           /\ (R.op = "rep" /\ R.pc = "done") =>
                  /\ R.created + R.skipped = R.occurrences * Cardinality(R.selected)
                  /\ Cardinality(sessions \ R.before) = R.created
           /\ (R.op = "rep" /\ R.pc = "rep_next" /\ R.queue # <<>>
               /\ R.i <= R.occurrences /\ R2 # R) =>
                  IF (BatchStart(R) \div 24) \in R.skip_set
                  THEN /\ R2.skipped = R.skipped + 1 /\ R2.created = R.created
                       /\ R2.i = R.i + 1 /\ R2.queue = R.queue
                       /\ sessions' = sessions
                  ELSE /\ R2.pc = "rep_exists" /\ R2.cursor = BatchStart(R)
                       /\ R2.seed = BatchSeed(R)
                       /\ R2.skipped = R.skipped /\ R2.created = R.created
                       /\ R2.i = R.i /\ R2.queue = R.queue
                       /\ sessions' = sessions
           /\ (R.op = "rep" /\ R.pc \in {"rep_exists", "rep_create"} /\ R2 # R) =>
                  /\ R.cursor = BatchStart(R)
                  /\ R.seed = BatchSeed(R)
                  /\ R2.pc = "rep_next" =>
                        /\ R2.i = R.i + 1 /\ R2.queue = R.queue
                        /\ IF Taken(R.seed, R.cursor)
                           THEN /\ R2.skipped = R.skipped + 1 /\ R2.created = R.created
                                /\ sessions' = sessions
                           ELSE /\ R2.created = R.created + 1 /\ R2.skipped = R.skipped
                                /\ \E r \in sessions' \ sessions :
                                      /\ sessions' = sessions \cup {r}
                                      /\ r.class_type = R.seed.class_type
                                      /\ r.start_datetime = R.cursor
                                      /\ Span(r) = Span(R.seed)]_vars

\* a run over two seeds with occurrences = 2 has returned with a skipped date,
\* a start found taken and rows created
C18_Witness ==
    /\ Run.op = "rep" /\ Run.pc = "done"
    /\ Cardinality(Run.selected) = 2 /\ Run.occurrences = 2
    /\ Run.hits # {} /\ Run.dups # {}
    /\ Run.created >= 1
    /\ Run.created + Run.skipped = 4

\* C15: a write refused by the uniqueness constraint always ends in a handled
\* failure shown to the user as a message: no request is answered by a
\* server error and no generator call is left by a propagating IntegrityError.
C15_ConflictsHandled ==
    /\ response # "500"
    /\ \A p \in Procs : proc[p].pc # "aborted"

\* an event without a limit: capacity 0, or not of the public kind
Unlimited(e) == e.capacity = 0 \/ e.event_type # "PUBLIC"

\* C16: for an event of capacity 0 or of the non-public kind, can_accept
\* admits every positive quantity, whatever registrations of whatever status
\* exist for it.
C16_UnlimitedAdmits ==
    \A e \in events :
        Unlimited(e) => \A q \in ProbeQuantities \ {0} : event_can_accept(e, q)

\* an event of capacity 0 holds 18 confirmed units and still admits 9 more
C16_Witness ==
    \E e \in events :
        /\ e.capacity = 0
        /\ EventUnits(e, {"CONFIRMED"}) = 18
        /\ event_can_accept(e, 9)

\* C17: calendar_events answers a request whose start or end parameter cannot
\* be parsed without an error, and with the default filter: every row of the
\* answer is published and starts at or after the time of the request.
C17_MalformedFallsBack ==
    (feed.start.kind = "bad" \/ feed.end.kind = "bad") =>
        /\ feed.status = 200
        /\ \A k \in DOMAIN feed.rows :
              /\ feed.rows[k].is_published
              /\ feed.rows[k].start_datetime >= feed.at

\* the attributes a generated row shares with its seed
SeriesOf(s) == <<s.class_type, s.instructor, s.location, s.price_cents>>

SameSeries(r, seed) == SeriesOf(r) = SeriesOf(seed)
SameType(r, seed) == r.class_type = seed.class_type

\* a candidate that is not on a skip date is counted as skipped, and nothing
\* is written for it, exactly when a session r with Same(r, seed) stands at
\* its start; in the other case it is counted as created and, unless the
\* call is a dry run, a row is written at that start
DuplicateRule(Same(_, _)) ==
    LET R == proc["p1"]
        R2 == proc'["p1"]
    IN  /\ (R.op = "gen" /\ R.pc = "exists" /\ R2 # R) =>
              /\ sessions' = sessions
              /\ R2.created = R.created
              /\ IF \E r \in sessions : Same(r, R.seed) /\ r.start_datetime = R.cursor
                 THEN R2.skipped = R.skipped + 1 /\ R2.pc = "advance"
                 ELSE R2.skipped = R.skipped /\ R2.pc = "create"
        /\ (R.op = "gen" /\ R.pc = "create" /\ R2 # R) =>
              /\ R2.created = R.created + 1
              /\ R2.skipped = R.skipped
              /\ IF R.dry_run THEN sessions' = sessions
                 ELSE \E r \in sessions' \ sessions :
                          /\ sessions' = sessions \cup {r}
                          /\ r.start_datetime = R.cursor

\* C19 as stated: the duplicate test looks for a session of the same series,
\* the series being class type, instructor, location and price.
C19_SeriesDuplicate == [][DuplicateRule(SameSeries)]_vars

\* C19, amended: the duplicate test looks for a session of the seed's class
\* type at the candidate's start, whatever its instructor, location and price.
C19_TypeDuplicate == [][DuplicateRule(SameType)]_vars

\* a run counted as duplicate a start held by a session of the seed's class
\* type with another instructor and price, and created a row elsewhere
C19_Witness ==
    /\ Run.op = "gen" /\ Run.pc = "done" /\ ~Run.dry_run
    /\ Run.created >= 1
    /\ \E r \in Run.before :
          /\ r.start_datetime \in Run.dups
          /\ r.class_type = Run.seed.class_type
          /\ r.instructor # Run.seed.instructor
          /\ r.price_cents # Run.seed.price_cents

\* C20: every row written by generate_recurrences or by generate_repeats has
\* the class type, instructor, location, capacity, price, published flag and
\* notes of the seed it is made from; among these and the start and end, only
\* the start and the end differ from the seed's.
C20_CopiesSeed ==
    [][\A p \in Procs :
          CreateStep(p) =>
              \A s \in sessions' \ sessions :
                  /\ s.class_type = proc[p].seed.class_type
                  /\ s.instructor = proc[p].seed.instructor
                  /\ s.location = proc[p].seed.location
                  /\ s.capacity = proc[p].seed.capacity
                  /\ s.price_cents = proc[p].seed.price_cents
                  /\ s.is_published = proc[p].seed.is_published
                  /\ s.notes = proc[p].seed.notes
                  /\ s.start_datetime # proc[p].seed.start_datetime
                  /\ s.end_datetime # proc[p].seed.end_datetime]_vars

\* a row written by a call of generate_recurrences and a row written by a
\* run of generate_repeats, both from an unpublished seed in the annex
C20_Witness ==
    \E a \in sessions : \E b \in sessions :
        /\ a.id >= 4 /\ ~a.is_published /\ a.location = "annex"
        /\ a.instructor = "bob" /\ a.capacity = 3
        /\ prev.op = "gen" /\ ~prev.dry_run /\ a.start_datetime \in prev.made
        /\ b.id > a.id /\ ~b.is_published /\ b.location = "annex"
        /\ \E p \in Procs : proc[p].op = "rep" /\ b.start_datetime \in proc[p].made

\* skip entries and tokens that cannot be read as dates
Malformed(entries) == {k \in DOMAIN entries : entries[k].kind \in {"bad", "other"}}
Dropped(entries) == SelectSeq(entries, LAMBDA e : e.kind \notin {"bad", "other"})

\* the class type of the row call c works on
CallType(c) ==
    IF c.op = "rep" THEN (CHOOSE s \in c.selected : TRUE).class_type
    ELSE c.seed.class_type

\* the starts held by sessions of that class type when call c began
StartsBefore(c) ==
    {r.start_datetime : r \in {x \in c.before : x.class_type = CallType(c)}}

\* the running call c and the call d that returned last are the same operation
\* with the same options on the two seeds, begun with the same starts taken,
\* c's skip list or tokens being d's without the malformed entries
CleanedTwin(c, d) ==
    /\ c.op = d.op /\ d.pc = "done"
    /\ c.op \in {"gen", "rep"}
    /\ StartsBefore(c) = StartsBefore(d)
    /\ \/ /\ c.op = "gen"
          /\ c.dry_run = d.dry_run
          /\ c.seed.id # d.seed.id
          /\ Malformed(d.seed.recurrence_skips) # {}
          /\ c.seed.recurrence_skips = Dropped(d.seed.recurrence_skips)
       \/ /\ c.op = "rep"
          /\ \E a \in c.selected : \E b \in d.selected : a.id # b.id
          /\ c.occurrences = d.occurrences /\ c.interval = d.interval
          /\ Malformed(d.tokens) # {}
          /\ c.tokens = Dropped(d.tokens)

\* the rows of the class type of call c's seed that were written since c began
NewStarts(c) ==
    {r.start_datetime : r \in {x \in sessions \ c.before : x.class_type = CallType(c)}}

\* C21: a skip list (of a seed, or typed into the batch action) with entries
\* that cannot be read as dates never makes a call fail, and the call returns
\* the same created and skipped counts and writes rows at the same starts as
\* the same call with those entries taken out of the list.
C21_MalformedDropped ==
    /\ response # "500"
    /\ Run.pc # "aborted"
    /\ (CleanedTwin(Run, prev) /\ Run.pc = "done") =>
          /\ Run.reason = "ok" /\ prev.reason = "ok"
          /\ Run.created = prev.created
          /\ Run.skipped = prev.skipped
          /\ Run.made = prev.made
          /\ Run.hits = prev.hits
          /\ (Run.op = "gen" /\ ~Run.dry_run) =>
                (NewStarts(Run) = Run.made /\ NewStarts(prev) = prev.made)
          /\ Run.op = "rep" =>
                (NewStarts(Run) = Run.made /\ NewStarts(prev) = prev.made)

\* generate_recurrences has run on a seed whose skip list holds a date and
\* two malformed entries, then on the seed with the date alone: same counts
C21_Witness ==
    /\ CleanedTwin(Run, prev) /\ Run.pc = "done"
    /\ Run.op = "gen" /\ ~Run.dry_run
    /\ Cardinality(Malformed(prev.seed.recurrence_skips)) = 2
    /\ prev.skipped = 1 /\ prev.created = 2
    /\ Run.skipped = 1 /\ Run.created = 2

\* both processes are at the end of a call of generate_recurrences that
\* writes (dry_run = False), made on the same seed (a row with recurrence on)
BothEnded ==
    /\ \A p \in Procs : /\ proc[p].op = "gen"
                        /\ ~proc[p].dry_run
                        /\ proc[p].pc \in {"done", "aborted"}
    /\ proc["p1"].seed = proc["p2"].seed
    /\ proc["p1"].seed.recurrence_enabled

\* the sessions of the seed's class type standing at the start t
RowsAt(seed, t) ==
    {r \in sessions : r.class_type = seed.class_type /\ r.start_datetime = t}

\* C22: when two calls of generate_recurrences on the same seed run at the
\* same time, with the existence query and the insert as separate steps and
\* an IntegrityError ending the call that meets it, then once both calls have
\* returned or failed the table holds exactly one session of the seed's class
\* type at every position in range that is not a skip date: at least one of
\* the calls returns normally, no position is written twice, the rows
\* written by the call that failed are still there, and nothing is written
\* outside these positions.
C22_RaceCompletes ==
    BothEnded =>
        LET A == proc["p1"]
            B == proc["p2"]
        IN  /\ A.pc = "done" \/ B.pc = "done"
            /\ \A t \in OpenPositions(A.seed) : Cardinality(RowsAt(A.seed, t)) = 1
            /\ A.made \cap B.made = {}
            /\ \A t \in A.made \cup B.made :
                  \E r \in sessions \ (A.before \cap B.before) : r.start_datetime = t
            /\ \A r \in sessions \ (A.before \cap B.before) :
                  r.start_datetime \in OpenPositions(A.seed)

\* one call failed on a position the other one wrote, after writing a row
\* itself, and the other call returned normally
C22_Witness ==
    /\ BothEnded
    /\ \E p \in Procs : \E q \in Procs :
          /\ proc[p].pc = "aborted" /\ proc[p].reason = "IntegrityError"
          /\ proc[p].made # {}
          /\ proc[q].pc = "done" /\ proc[q].reason = "ok"
          /\ proc[p].cursor \in proc[q].made
          /\ proc[q].dups # {}

\* the rows written by generate_recurrences or generate_repeats: the tables
\* start with the primary keys 1 to 3
Generated == {r \in sessions : r.id >= 4}

\* the starts the selected rows with recurrence switched on have in range,
\* off their skip dates and free in the table rows
Due(selection, rows) ==
    UNION { {<<s.class_type, t>> :
                t \in {u \in OpenPositions(s) :
                          ~\E r \in rows : /\ r.start_datetime = u
                                           /\ r.class_type = s.class_type}} :
            s \in {x \in selection : x.id < 4 /\ x.recurrence_enabled} }

\* C23: a row written by generate_recurrences or by generate_repeats has
\* recurrence switched off and the other recurrence fields at their defaults;
\* generate_recurrences called on such a row returns "disabled" with
\* created = 0; and generate_from_recurrence_fields run on a selection that
\* holds such rows next to the seed creates what the seed alone gives rise
\* to and nothing more.
C23_GeneratedNotSeeds ==
    /\ \A r \in Generated :
          /\ ~r.recurrence_enabled
          /\ r.recurrence_every_n_weeks = 1
          /\ r.recurrence_until = NoDate
          /\ r.recurrence_skips = <<>>
    /\ (Run.op = "fields" /\ Run.seed.id >= 4 /\ Run.pc # "fld_next") =>
          /\ Run.pc = "done" /\ Run.reason = "disabled"
          /\ Run.created = 0 /\ Run.skipped = 0
    /\ (Run.op = "fields" /\ Run.pc = "fld_next" /\ Run.queue = <<>>) =>
          LET new == sessions \ Run.before
          IN  /\ Run.total_created = Cardinality(new)
              /\ {<<r.class_type, r.start_datetime>> : r \in new}
                    = Due(Run.selected, Run.before)
              /\ Cardinality(new) = Cardinality(Due(Run.selected, Run.before))

\* after a batch run wrote a row, the action ran on the seed together with
\* that row and created rows from the seed only
C23_Witness ==
    /\ Run.op = "fields" /\ Run.pc = "fld_next" /\ Run.queue = <<>>
    /\ \E s \in Run.selected : s.id = 1
    /\ \E g \in Run.selected : g.id >= 4 /\ g.class_type = "A"
    /\ Run.total_created >= 1
    /\ prev.op = "fields" /\ prev.reason = "disabled" /\ prev.seed.id >= 4

=============================================================================
